---- MODULE Spec2Model ----
(***************************************************************************)
(* Model of the technical-indicator and recommendation engine of           *)
(* AI-Stock-Guru (class MLStockPredictor).                                 *)
(*                                                                         *)
(* JavaScript numbers are modelled as tagged values: a finite number is    *)
(* [k |-> "num", v |-> n] with n a fixed-point integer, and NaN, Infinity  *)
(* and undefined are their own tags.  Prices are held in hundredths        *)
(* (PriceScale), ratios and fractions in ten-thousandths (RatioScale).     *)
(* Arrays are sequences; the code's 0-based index i is element i + 1.      *)
(***************************************************************************)
EXTENDS Integers, Sequences, FiniteSets, TLC

VARIABLES
    pc,               \* "idle" before the call, then the name of the call made
    argData,          \* the bar series handed to predictNextDay / generatePredictions
    argStocks,        \* the (symbol, data) pairs handed to generateInvestmentRecommendations
    argDays,          \* the days argument of generatePredictions
    randomSource,     \* the pattern of values Math.random() returns during the call
    nextDay,          \* the value predictNextDay returned
    predictions,      \* the array generatePredictions returned
    recommendations,  \* the array generateInvestmentRecommendations returned
    raised,           \* TRUE when the call ended in an exception instead of a return
    nextDayAgain,     \* the value a second predictNextDay call on the same series returned
    indicatorInput,   \* the number array handed to an indicator function
    indicatorOutput,  \* the array(s) the indicator function returned
    indicatorPeriod,  \* the window or period argument of the indicator call
    selectedStock,    \* App: the selectedStock state
    shown,            \* App: for each displayed state, the symbol it was computed for
    loading,          \* App: the loading state
    loads,            \* App: the symbols of the loadStockData calls awaiting their fetches
    searchQuery,      \* StockSelector: the searchQuery state
    searchResults,    \* StockSelector: what the searchResults state was computed from
    isSearching,      \* StockSelector: the isSearching state
    timers,           \* StockSelector: the debounce timeouts set and neither fired nor cleared
    searchTimeoutRef, \* StockSelector: the id in searchTimeoutRef.current, 0 when unset
    searches,         \* StockSelector: the queries of the searchStocks calls awaited
    apiPc,            \* makeRobustApiCall: "idle", "running", "returned" or "thrown"
    apiEndpoint,      \* makeRobustApiCall: its endpoint argument
    apiIndex,         \* makeRobustApiCall: the position of the outer loop in API_ENDPOINTS
    proxyIndex,       \* makeRobustApiCall: 0 at the direct call, else the position in CORS_PROXIES
    requests,         \* makeRobustApiCall: the axios.get calls made, with what each answered
    apiResult         \* makeRobustApiCall: the value returned

vars == <<pc, argData, argStocks, argDays, randomSource, nextDay, predictions,
          recommendations, raised, nextDayAgain, indicatorInput, indicatorOutput,
          indicatorPeriod, selectedStock, shown, loading, loads, searchQuery,
          searchResults, isSearching, timers, searchTimeoutRef, searches, apiPc,
          apiEndpoint, apiIndex, proxyIndex, requests, apiResult>>

\* the state of the predictor calls, and the state of the components
predictorVars == <<pc, argData, argStocks, argDays, randomSource, nextDay, predictions,
                   recommendations, raised, nextDayAgain, indicatorInput,
                   indicatorOutput, indicatorPeriod>>
appVars == <<selectedStock, shown, loading, loads>>
selectorVars == <<searchQuery, searchResults, isSearching, timers, searchTimeoutRef,
                  searches>>
apiVars == <<apiPc, apiEndpoint, apiIndex, proxyIndex, requests, apiResult>>
uiVars == <<appVars, selectorVars, apiVars>>

----------------------------------------------------------------------------
(* Number representation *)

PriceScale == 100
RatioScale == 10000
RsiScale == 100
FineScale == 100

Num(n) == [k |-> "num", v |-> n]
NaN == [k |-> "NaN", v |-> 0]
Infinity == [k |-> "Infinity", v |-> 0]
undefined == [k |-> "undefined", v |-> 0]

\* isNaN(x): NaN, and undefined (which converts to NaN)
isNaN(x) == x.k \in {"NaN", "undefined"}
\* isFinite(x)
isFinite(x) == x.k = "num"
\* the truthiness of x, as `x && ...` and `x || ...` test it
Truthy(x) == x.k = "Infinity" \/ (x.k = "num" /\ x.v # 0)
\* x > 0
GtZero(x) == x.k = "Infinity" \/ (x.k = "num" /\ x.v > 0)
\* x >= 0
GeZero(x) == x.k = "Infinity" \/ (x.k = "num" /\ x.v >= 0)

\* arr[i] for a 0-based index i: undefined outside the array
At(arr, i) == IF i >= 0 /\ i < Len(arr) THEN Num(arr[i + 1]) ELSE undefined

Max(a, b) == IF a >= b THEN a ELSE b
Min(a, b) == IF a <= b THEN a ELSE b
Abs(a) == IF a < 0 THEN -a ELSE a

\* a / b rounded toward zero, b > 0
Div(a, b) == IF a >= 0 THEN a \div b ELSE -((-a) \div b)

RECURSIVE SumFrom(_, _, _)
\* data.slice(from, to).reduce((a, b) => a + b, 0), 0-based, to exclusive
\* (summed by halves, which keeps the evaluation shallow)
SumFrom(data, from, to) ==
    IF from >= to THEN 0
    ELSE IF from + 1 = to THEN data[from + 1]
    ELSE LET mid == (from + to) \div 2
         IN  SumFrom(data, from, mid) + SumFrom(data, mid, to)

RECURSIVE SqrtSearch(_, _, _)
SqrtSearch(n, lo, hi) ==
    IF lo >= hi THEN lo
    ELSE LET mid == (lo + hi + 1) \div 2
         IN  IF mid * mid <= n THEN SqrtSearch(n, mid, hi) ELSE SqrtSearch(n, lo, mid - 1)

\* Math.sqrt on fixed-point integers: the integer square root
Sqrt(n) == SqrtSearch(n, 0, Min(n, 46340))

\* Math.tanh on RatioScale values: the piecewise-linear interpolant of tanh
\* through its values at multiples of 0.25, saturating at 1
TanhTable == <<0, 2449, 4621, 6351, 7616, 8483, 9051, 9414, 9640,
               9780, 9866, 9919, 9951, 9970, 9982, 9989, 9993>>

TanhPos(x) ==
    LET step == RatioScale \div 4
        j == x \div step
    IN  IF j + 1 >= Len(TanhTable) THEN RatioScale
        ELSE TanhTable[j + 1]
             + ((x - j * step) * (TanhTable[j + 2] - TanhTable[j + 1])) \div step

Tanh(x) == IF x >= 0 THEN TanhPos(x) ELSE -TanhPos(-x)

----------------------------------------------------------------------------
(* Indicator library *)

calculateMovingAverage(data, window) ==
    [i \in 1..Len(data) |->
        IF i - 1 < window - 1 THEN data[i]
        ELSE Div(SumFrom(data, i - window, i), window)]

\* the gains (up = TRUE) or losses (up = FALSE) array of calculateRSI: one
\* entry per index i = 1 .. prices.length - 1
GainsLosses(prices, up) ==
    [i \in 1..(Len(prices) - 1) |->
        LET change == prices[i + 1] - prices[i]
        IN  IF up THEN (IF change > 0 THEN change ELSE 0)
            ELSE (IF change < 0 THEN Abs(change) ELSE 0)]

\* RSI of one window, from the sums of its gains and losses (price units):
\* rs = avgGain / (avgLoss || 0.01) and 100 - 100 / (1 + rs), which is
\* 100 * sumGain / (sumGain + (sumLoss || 0.01 * period)); in RsiScale
RSIValue(sumGain, sumLoss, period) ==
    LET lossOrFloor == IF sumLoss # 0 THEN sumLoss ELSE (period * PriceScale) \div 100
    IN  (100 * RsiScale * sumGain) \div (sumGain + lossOrFloor)

\* calculateRSI with one entry per price, the first one for no change
calculateRSI_PerPrice(prices, period) ==
    LET gains == <<0>> \o GainsLosses(prices, TRUE)
        losses == <<0>> \o GainsLosses(prices, FALSE)
    IN  [i \in 1..Len(prices) |->
            IF i - 1 < period - 1 THEN 50 * RsiScale
            ELSE RSIValue(SumFrom(gains, i - period, i),
                          SumFrom(losses, i - period, i), period)]

calculateRSI(prices, period) ==
    LET gains == GainsLosses(prices, TRUE)
        losses == GainsLosses(prices, FALSE)
    IN  [i \in 1..(Len(prices) - 1) |->
            IF i - 1 < period - 1 THEN 50 * RsiScale
            ELSE RSIValue(SumFrom(gains, i - period, i),
                          SumFrom(losses, i - period, i), period)]

\* rsi[i] of the array calculateRSI(prices, 14) for a 0-based index i: the
\* array has prices.length - 1 entries, and a read outside it is undefined
RSIAt(prices, i) ==
    IF i >= 0 /\ i < Len(prices) - 1 THEN Num(calculateRSI(prices, 14)[i + 1])
    ELSE undefined

\* prices[i] * multiplier + ema[i - 1] * (1 - multiplier) with
\* multiplier = 2 / (period + 1)
EMAStep(price, previous, period) == Div(2 * price + (period - 1) * previous, period + 1)

RECURSIVE EMARange(_, _, _, _, _)
\* the values the loop of calculateEMA pushes for the 0-based indices
\* from .. to, previous being ema[from - 1] (the range is run by halves,
\* which keeps the evaluation shallow)
EMARange(prices, period, from, to, previous) ==
    IF from > to THEN <<>>
    ELSE IF from = to THEN <<EMAStep(prices[from + 1], previous, period)>>
    ELSE LET mid == (from + to) \div 2
             left == EMARange(prices, period, from, mid, previous)
         IN  left \o EMARange(prices, period, mid + 1, to, left[Len(left)])

\* calculateEMA on a non-empty array (every caller passes the filtered,
\* validated prices, or an array derived from them)
calculateEMA(prices, period) ==
    <<prices[1]>> \o EMARange(prices, period, 1, Len(prices) - 1, prices[1])

\* prices in the finer unit the EMA and MACD arrays are held in
ToFine(prices) == [i \in 1..Len(prices) |-> prices[i] * FineScale]

calculateMACD(prices) ==
    LET ema12 == calculateEMA(ToFine(prices), 12)
        ema26 == calculateEMA(ToFine(prices), 26)
        macd == [i \in 1..Len(ema12) |-> ema12[i] - ema26[i]]
        signal == calculateEMA(macd, 9)
        histogram == [i \in 1..Len(macd) |-> macd[i] - signal[i]]
    IN  [macd |-> macd, signal |-> signal, histogram |-> histogram]

RECURSIVE SumSqDev(_, _, _, _)
\* slice.reduce((sum, x) => sum + Math.pow(x - mean, 2), 0) over data[from..to)
SumSqDev(data, from, to, mean) ==
    IF from >= to THEN 0
    ELSE (data[from + 1] - mean) * (data[from + 1] - mean)
         + SumSqDev(data, from + 1, to, mean)

calculateBollingerBands(prices, period, stdDev) ==
    LET ma == calculateMovingAverage(prices, period)
    IN  [i \in 1..Len(prices) |->
            IF i - 1 < period - 1
            THEN [upper |-> prices[i], middle |-> prices[i], lower |-> prices[i]]
            ELSE LET mean == ma[i]
                     variance == Div(SumSqDev(prices, i - period, i, mean), period)
                     standardDeviation == Sqrt(variance)
                 IN  [upper |-> mean + standardDeviation * stdDev,
                      middle |-> mean,
                      lower |-> mean - standardDeviation * stdDev]]

\* validateData on an array of finite numbers
validateData(data) == Len(data) > 0 /\ \A i \in 1..Len(data) : data[i] > 0

\* the filter !isNaN(x) && isFinite(x) && x > 0 of a close price
ValidPrice(x) == ~isNaN(x) /\ isFinite(x) /\ GtZero(x)
\* the filter !isNaN(x) && isFinite(x) && x >= 0 of a volume
ValidVolume(x) == ~isNaN(x) /\ isFinite(x) /\ GeZero(x)

\* the numbers of an array of finite values
Values(xs) == [i \in 1..Len(xs) |-> xs[i].v]

\* bars.map(d => d.close).filter(price => !isNaN(price) && isFinite(price) && price > 0)
FilterPrices(bars) ==
    Values(SelectSeq([i \in 1..Len(bars) |-> bars[i].close], ValidPrice))
\* bars.map(d => d.volume).filter(vol => !isNaN(vol) && isFinite(vol) && vol >= 0)
FilterVolumes(bars) ==
    Values(SelectSeq([i \in 1..Len(bars) |-> bars[i].volume], ValidVolume))

\* data.slice(-n)
SliceLast(data, n) ==
    IF Len(data) <= n THEN data ELSE SubSeq(data, Len(data) - n + 1, Len(data))

RECURSIVE Returns(_, _)
\* the returns array of calculateVolatility, in RatioScale
Returns(prices, i) ==
    IF i >= Len(prices) THEN <<>>
    ELSE (IF prices[i] > 0
          THEN <<Div((prices[i + 1] - prices[i]) * RatioScale, prices[i])>>
          ELSE <<>>) \o Returns(prices, i + 1)

calculateVolatility(prices) ==
    IF Len(prices) < 2 THEN (2 * RatioScale) \div 100
    ELSE LET returns == Returns(prices, 1)
         IN  IF Len(returns) = 0 THEN (2 * RatioScale) \div 100
             ELSE LET mean == Div(SumFrom(returns, 0, Len(returns)), Len(returns))
                      \* (each squared deviation is divided before the sum,
                      \* which keeps returns of several hundred percent
                      \* within the 32-bit range)
                      variance == SumFrom([k \in 1..Len(returns) |->
                                              Div((returns[k] - mean) * (returns[k] - mean),
                                                  Len(returns))],
                                          0, Len(returns))
                  IN  Sqrt(variance)

----------------------------------------------------------------------------
(* Next-day predictor *)

MinBars == 50

\* historicalData[historicalData.length - 1]?.close
LastClose(historicalData) ==
    IF Len(historicalData) = 0 THEN undefined
    ELSE historicalData[Len(historicalData)].close

\* LastPriceOr100 without the truthiness test
LastPriceOr100_NotNaNOnly(lastPrice) ==
    IF ~isNaN(lastPrice) THEN lastPrice ELSE Num(100 * PriceScale)

\* lastPrice && !isNaN(lastPrice) ? lastPrice : 100
LastPriceOr100(lastPrice) ==
    IF Truthy(lastPrice) /\ ~isNaN(lastPrice) THEN lastPrice ELSE Num(100 * PriceScale)

\* lastClose || 100
CloseOr100(lastClose) == IF Truthy(lastClose) THEN lastClose ELSE Num(100 * PriceScale)

\* Noise with the factor 0.8
Noise_Wide(random) == Div((random - RatioScale \div 2) * 8, 10)

\* (Math.random() - 0.5) * 0.008 in RatioScale, random in 0..RatioScale-1
Noise(random) == Div((random - RatioScale \div 2) * 8, 1000)

\* the features object of predictNextDay, in RatioScale
Features(prices, volumes) ==
    LET sma20 == calculateMovingAverage(prices, 20)
        sma50 == calculateMovingAverage(prices, 50)
        currentRSI == RSIAt(prices, Len(prices) - 1)
        macd == calculateMACD(prices)
        bollinger == calculateBollingerBands(prices, 20, 2)
        lastIndex == Len(prices) - 1
        currentPrice == prices[lastIndex + 1]
        band == bollinger[lastIndex + 1]
        nVol == Len(volumes)
    IN  [priceToSMA20 |-> IF sma20[lastIndex + 1] > 0
                          THEN Div(currentPrice * RatioScale, sma20[lastIndex + 1])
                          ELSE RatioScale,
         priceToSMA50 |-> IF sma50[lastIndex + 1] > 0
                          THEN Div(currentPrice * RatioScale, sma50[lastIndex + 1])
                          ELSE RatioScale,
         smaRatio |-> IF sma50[lastIndex + 1] > 0
                      THEN Div(sma20[lastIndex + 1] * RatioScale, sma50[lastIndex + 1])
                      ELSE RatioScale,
         rsi |-> IF isFinite(currentRSI)
                 THEN Div(currentRSI.v * RatioScale, 100 * RsiScale)
                 ELSE RatioScale \div 2,
         macdSignal |-> IF macd.macd[lastIndex + 1] > macd.signal[lastIndex + 1]
                        THEN RatioScale ELSE -RatioScale,
         bollingerPosition |-> IF band.upper - band.lower > 0
                               THEN Div((currentPrice - band.lower) * RatioScale,
                                        band.upper - band.lower)
                               ELSE RatioScale \div 2,
         volumeRatio |-> IF nVol > 20 /\ volumes[nVol] > 0
                         THEN Div(volumes[nVol] * 20 * RatioScale,
                                  SumFrom(volumes, nVol - 20, nVol))
                         ELSE RatioScale,
         momentum |-> IF Len(prices) > 10 /\ prices[lastIndex - 10 + 1] > 0
                      THEN Div((prices[lastIndex + 1] - prices[lastIndex - 10 + 1]) * RatioScale,
                               prices[lastIndex - 10 + 1])
                      ELSE 0,
         volatility |-> calculateVolatility(SliceLast(prices, 20))]

\* the weights object of predictNextDay, in hundredths
weights ==
    [priceToSMA20 |-> 18, priceToSMA50 |-> 15, smaRatio |-> 20, rsi |-> -10,
     macdSignal |-> 12, bollingerPosition |-> -8, volumeRatio |-> 8,
     momentum |-> 28, volatility |-> -9]

FeatureNames ==
    <<"priceToSMA20", "priceToSMA50", "smaRatio", "rsi", "macdSignal",
      "bollingerPosition", "volumeRatio", "momentum", "volatility">>

RECURSIVE WeightedSum(_, _)
\* Object.entries(features).forEach: prediction += value * weights[key]
\* (every feature of the model is a finite number), in RatioScale * 100
WeightedSum(features, j) ==
    IF j > Len(FeatureNames) THEN 0
    ELSE features[FeatureNames[j]] * weights[FeatureNames[j]] + WeightedSum(features, j + 1)

\* Math.max(minPrice, Math.min(maxPrice, finalPrediction)) with the bounds
\* currentPrice * 0.92 and currentPrice * 1.08
ClampToBand(currentPrice, finalPrediction) ==
    LET minPrice == Div(currentPrice * 92, 100)
        maxPrice == Div(currentPrice * 108, 100)
    IN  Max(minPrice, Min(maxPrice, finalPrediction))

\* finalPrediction: the price before the clamp, from the filtered prices
\* and volumes
FinalPrediction(prices, volumes, random) ==
    LET currentPrice == prices[Len(prices)]
        prediction == Div(WeightedSum(Features(prices, volumes), 1), 100)
        changePercent == Div(Tanh(prediction) * 4, 100)
        predictedPrice == Div(currentPrice * (RatioScale + changePercent), RatioScale)
    IN  Div(predictedPrice * (RatioScale + Noise(random)), RatioScale)

\* ModelPrice with the band taken around the first price of the series
ModelPrice_BandAtFirst(prices, volumes, random) ==
    ClampToBand(prices[1], FinalPrediction(prices, volumes, random))

\* the price the model computes from the filtered prices and volumes
ModelPrice(prices, volumes, random) ==
    ClampToBand(prices[Len(prices)], FinalPrediction(prices, volumes, random))

\* predictNextDay(historicalData), random being the value of Math.random()
predictNextDay(historicalData, random) ==
    IF Len(historicalData) < MinBars
    THEN LastPriceOr100(LastClose(historicalData))
    ELSE LET prices == FilterPrices(historicalData)
             volumes == FilterVolumes(historicalData)
         IN  IF ~validateData(prices)
             THEN CloseOr100(LastClose(historicalData))
             ELSE Num(ModelPrice(prices, volumes, random))

----------------------------------------------------------------------------
(* Backtest / prediction sequence generator *)

\* the value Math.random() returns in the call made at position i, for each
\* pattern of the random source
RandomAt(pattern, i) ==
    CASE pattern = "low" -> 0
      [] pattern = "mid" -> RatioScale \div 2
      [] pattern = "high" -> RatioScale - 1
      [] OTHER -> IF i % 2 = 0 THEN 0 ELSE RatioScale - 1

\* Math.abs(p.actual - p.predicted) / p.actual of an emitted entry, in RatioScale
RelError(p) ==
    IF p.predicted.k = "Infinity" THEN Infinity
    ELSE Num(Div(Abs(p.actual.v - p.predicted.v) * RatioScale, p.actual.v))

RECURSIVE SumErrors(_, _)
SumErrors(recent, j) ==
    IF j > Len(recent) THEN Num(0)
    ELSE LET e == RelError(recent[j])
             rest == SumErrors(recent, j + 1)
         IN  IF e.k = "Infinity" \/ rest.k = "Infinity" THEN Infinity
             ELSE Num(e.v + rest.v)

\* Confidence with the mean taken over every earlier entry
Confidence_AllPrior(prior) ==
    LET recentPredictions == prior
        avgError == IF Len(recentPredictions) > 0
                    THEN LET sum == SumErrors(recentPredictions, 1)
                         IN  IF sum.k = "Infinity" THEN Infinity
                             ELSE Num(Div(sum.v, Len(recentPredictions)))
                    ELSE Num((2 * RatioScale) \div 100)
    IN  IF avgError.k = "Infinity" THEN (65 * RatioScale) \div 100
        ELSE Max((65 * RatioScale) \div 100,
                 Min((95 * RatioScale) \div 100, RatioScale - avgError.v * 8))

\* the confidence of the entry emitted after the entries in predictions:
\* Math.max(0.65, Math.min(0.95, 1 - avgError * 8)), in RatioScale
Confidence(prior) ==
    LET recentPredictions == SliceLast(prior, 10)
        avgError == IF Len(recentPredictions) > 0
                    THEN LET sum == SumErrors(recentPredictions, 1)
                         IN  IF sum.k = "Infinity" THEN Infinity
                             ELSE Num(Div(sum.v, Len(recentPredictions)))
                    ELSE Num((2 * RatioScale) \div 100)
    IN  IF avgError.k = "Infinity" THEN (65 * RatioScale) \div 100
        ELSE Max((65 * RatioScale) \div 100,
                 Min((95 * RatioScale) \div 100, RatioScale - avgError.v * 8))

\* ActualPrices without the filter
ActualPrices_Unfiltered(historicalData) ==
    [i \in 1..Len(historicalData) |-> historicalData[i].close.v]

\* const actualPrices = historicalData.map(d => d.close).filter(...)
ActualPrices(historicalData) == FilterPrices(historicalData)

\* PredictionStep with the bar at index i included in the slice
PredictionStep_Lookahead(historicalData, actualPrices, pattern, i, acc) ==
    LET dataUpToPoint == SubSeq(historicalData, 1, i + 1)
        predicted == predictNextDay(dataUpToPoint, RandomAt(pattern, i))
        actual == At(actualPrices, i)
    IN  IF ~isNaN(actual) /\ ~isNaN(predicted) /\ GtZero(actual) /\ GtZero(predicted)
        THEN Append(acc, [date |-> historicalData[i + 1].date,
                          actual |-> actual,
                          predicted |-> predicted,
                          confidence |-> Confidence(acc)])
        ELSE acc

\* the body of the for loop of generatePredictions at index i, acc being
\* the predictions array before it
PredictionStep(historicalData, actualPrices, pattern, i, acc) ==
    LET dataUpToPoint == SubSeq(historicalData, 1, i)
        predicted == predictNextDay(dataUpToPoint, RandomAt(pattern, i))
        actual == At(actualPrices, i)
    IN  IF ~isNaN(actual) /\ ~isNaN(predicted) /\ GtZero(actual) /\ GtZero(predicted)
        THEN Append(acc, [date |-> historicalData[i + 1].date,
                          actual |-> actual,
                          predicted |-> predicted,
                          confidence |-> Confidence(acc)])
        ELSE acc

RECURSIVE PredictionLoop(_, _, _, _, _, _)
\* the for loop of generatePredictions over the indices from .. to (the
\* range is run by halves, which keeps the evaluation shallow)
PredictionLoop(historicalData, actualPrices, pattern, from, to, acc) ==
    IF from > to THEN acc
    ELSE IF from = to THEN PredictionStep(historicalData, actualPrices, pattern, from, acc)
    ELSE LET mid == (from + to) \div 2
             left == PredictionLoop(historicalData, actualPrices, pattern, from, mid, acc)
         IN  \* (the test has the first half evaluated before the second starts)
             IF Len(left) >= 0
             THEN PredictionLoop(historicalData, actualPrices, pattern, mid + 1, to, left)
             ELSE left

generatePredictions(historicalData, nDays, pattern) ==
    LET actualPrices == ActualPrices(historicalData)
    IN  IF Len(actualPrices) < MinBars THEN <<>>
        ELSE LET startIndex == Max(MinBars, Len(historicalData) - nDays)
             IN  PredictionLoop(historicalData, actualPrices, pattern, startIndex,
                                Len(historicalData) - 1, <<>>)

----------------------------------------------------------------------------
(* Recommendation engine *)

\* PricePredictionSignal with the +1% and -1% tests made first
PricePredictionSignal_WeakFirst(predictedPrice, currentPrice) ==
    LET diff == predictedPrice - currentPrice
    IN  IF diff * 100 > currentPrice
        THEN [score |-> 2, reasons |-> <<"Positive AI price prediction">>]
        ELSE IF diff * 1000 > 25 * currentPrice
        THEN [score |-> 4, reasons |-> <<"Strong AI price prediction (+2.5%+)">>]
        ELSE IF diff * 100 < -currentPrice
        THEN [score |-> -2, reasons |-> <<"Weak AI price prediction">>]
        ELSE IF diff * 1000 < -25 * currentPrice
        THEN [score |-> -4, reasons |-> <<"Negative AI price prediction (-2.5%+)">>]
        ELSE [score |-> 0, reasons |-> <<>>]

\* the price prediction group: the score it adds and the reasons it appends
PricePredictionSignal(predictedPrice, currentPrice) ==
    LET diff == predictedPrice - currentPrice
    IN  IF diff * 1000 > 25 * currentPrice
        THEN [score |-> 4, reasons |-> <<"Strong AI price prediction (+2.5%+)">>]
        ELSE IF diff * 100 > currentPrice
        THEN [score |-> 2, reasons |-> <<"Positive AI price prediction">>]
        ELSE IF diff * 1000 < -25 * currentPrice
        THEN [score |-> -4, reasons |-> <<"Negative AI price prediction (-2.5%+)">>]
        ELSE IF diff * 100 < -currentPrice
        THEN [score |-> -2, reasons |-> <<"Weak AI price prediction">>]
        ELSE [score |-> 0, reasons |-> <<>>]

\* the moving averages group
TrendSignal(sma20Last, sma50Last, currentPrice) ==
    IF sma20Last > sma50Last /\ currentPrice > sma20Last
    THEN [score |-> 3, reasons |-> <<"Bullish trend (above moving averages)">>]
    ELSE IF sma20Last < sma50Last /\ currentPrice < sma20Last
    THEN [score |-> -3, reasons |-> <<"Bearish trend (below moving averages)">>]
    ELSE [score |-> 0, reasons |-> <<>>]

\* the RSI group; currentRSI = rsi[lastIndex] is a number or undefined, and
\* every comparison with undefined is false
RSISignal(currentRSI) ==
    IF isFinite(currentRSI) /\ currentRSI.v < 30 * RsiScale
    THEN [score |-> 2, reasons |-> <<"Oversold condition (RSI < 30)">>]
    ELSE IF isFinite(currentRSI) /\ currentRSI.v > 70 * RsiScale
    THEN [score |-> -2, reasons |-> <<"Overbought condition (RSI > 70)">>]
    ELSE IF isFinite(currentRSI) /\ currentRSI.v >= 40 * RsiScale
                                 /\ currentRSI.v <= 60 * RsiScale
    THEN [score |-> 1, reasons |-> <<"Neutral RSI levels">>]
    ELSE [score |-> 0, reasons |-> <<>>]

\* MACDSignal adding nothing when the MACD line equals the signal line
MACDSignal_SilentOnEqual(macdLast, signalLast) ==
    IF macdLast > signalLast
    THEN [score |-> 1, reasons |-> <<"Positive MACD crossover">>]
    ELSE IF macdLast < signalLast
    THEN [score |-> -1, reasons |-> <<"Negative MACD signal">>]
    ELSE [score |-> 0, reasons |-> <<>>]

\* the MACD group
MACDSignal(macdLast, signalLast) ==
    IF macdLast > signalLast
    THEN [score |-> 1, reasons |-> <<"Positive MACD crossover">>]
    ELSE [score |-> -1, reasons |-> <<"Negative MACD signal">>]

\* the momentum group
MomentumSignal(prices) ==
    IF Len(prices) > 10
    THEN LET currentPrice == prices[Len(prices)]
             past == prices[Len(prices) - 10]
             diff == currentPrice - past
         IN  IF diff * 100 > 8 * past
             THEN [score |-> 2, reasons |-> <<"Strong positive momentum (8%+)">>]
             ELSE IF diff * 100 > 3 * past
             THEN [score |-> 1, reasons |-> <<"Positive momentum">>]
             ELSE IF diff * 100 < -8 * past
             THEN [score |-> -2, reasons |-> <<"Strong negative momentum (-8%+)">>]
             ELSE IF diff * 100 < -3 * past
             THEN [score |-> -1, reasons |-> <<"Negative momentum">>]
             ELSE [score |-> 0, reasons |-> <<>>]
    ELSE [score |-> 0, reasons |-> <<>>]

\* score and reasons after the five groups, for the filtered prices and the
\* (finite) predicted price
Scoring(prices, predictedPrice) ==
    LET currentPrice == prices[Len(prices)]
        sma20 == calculateMovingAverage(prices, 20)
        sma50 == calculateMovingAverage(prices, 50)
        macd == calculateMACD(prices)
        lastIndex == Len(prices) - 1
        g1 == PricePredictionSignal(predictedPrice, currentPrice)
        g2 == TrendSignal(sma20[lastIndex + 1], sma50[lastIndex + 1], currentPrice)
        g3 == RSISignal(RSIAt(prices, lastIndex))
        g4 == MACDSignal(macd.macd[lastIndex + 1], macd.signal[lastIndex + 1])
        g5 == MomentumSignal(prices)
    IN  [score |-> g1.score + g2.score + g3.score + g4.score + g5.score,
         reasons |-> g1.reasons \o g2.reasons \o g3.reasons \o g4.reasons \o g5.reasons]

\* Categorise without the 0.92 limit of the BUY confidence
Categorise_BuyUncapped(score) ==
    IF score >= 5
    THEN [recommendation |-> "BUY", confidence |-> 75 + score * 3]
    ELSE IF score <= -4
    THEN [recommendation |-> "SELL", confidence |-> Min(88, 70 + Abs(score) * 3)]
    ELSE [recommendation |-> "HOLD", confidence |-> 70 + Abs(score) * 2]

\* Categorise with the BUY step 0.03 also used for HOLD
Categorise_HoldStep(score) ==
    IF score >= 5
    THEN [recommendation |-> "BUY", confidence |-> Min(92, 75 + score * 3)]
    ELSE IF score <= -4
    THEN [recommendation |-> "SELL", confidence |-> Min(88, 70 + Abs(score) * 3)]
    ELSE [recommendation |-> "HOLD", confidence |-> 70 + Abs(score) * 3]

\* the recommendation and confidence (in hundredths) a score maps to
Categorise(score) ==
    IF score >= 5
    THEN [recommendation |-> "BUY", confidence |-> Min(92, 75 + score * 3)]
    ELSE IF score <= -4
    THEN [recommendation |-> "SELL", confidence |-> Min(88, 70 + Abs(score) * 3)]
    ELSE [recommendation |-> "HOLD", confidence |-> 70 + Abs(score) * 2]

\* ReasonText with the last two descriptions joined
ReasonText_LastTwo(reasons) ==
    IF Len(reasons) = 0 THEN <<"Mixed technical signals">>
    ELSE SubSeq(reasons, Max(1, Len(reasons) - 1), Len(reasons))

\* reasons.slice(0, 2).join(', ') || 'Mixed technical signals', as the list
\* of the joined descriptions
ReasonText(reasons) ==
    IF Len(reasons) = 0 THEN <<"Mixed technical signals">>
    ELSE SubSeq(reasons, 1, Min(2, Len(reasons)))

\* Math.max(predictedPrice, 1)
TargetPrice(predictedPrice) ==
    IF predictedPrice.k = "Infinity" THEN Infinity
    ELSE IF predictedPrice.k = "num" THEN Num(Max(predictedPrice.v, 1 * PriceScale))
    ELSE NaN

\* Recommend with the invalid-data branch a copy of the insufficient-data branch
Recommend_CopiedBranch(symbol, data, random) ==
    IF Len(data) < MinBars \/ ~validateData(FilterPrices(data))
    THEN [symbol |-> symbol, recommendation |-> "HOLD",
          targetPrice |-> LastPriceOr100(LastClose(data)),
          confidence |-> 50, reason |-> <<"Insufficient data for analysis">>]
    ELSE LET prices == FilterPrices(data)
             predictedPrice == predictNextDay(data, random)
             scoring == Scoring(prices, predictedPrice.v)
             category == Categorise(scoring.score)
         IN  [symbol |-> symbol, recommendation |-> category.recommendation,
              targetPrice |-> TargetPrice(predictedPrice),
              confidence |-> Min(category.confidence, 95),
              reason |-> ReasonText(scoring.reasons)]

\* the callback of stocksData.map: the recommendation of one (symbol, data) pair
Recommend(symbol, data, random) ==
    IF Len(data) < MinBars
    THEN [symbol |-> symbol, recommendation |-> "HOLD",
          targetPrice |-> LastPriceOr100(LastClose(data)),
          confidence |-> 50, reason |-> <<"Insufficient data for analysis">>]
    ELSE LET prices == FilterPrices(data)
         IN  IF ~validateData(prices)
             THEN [symbol |-> symbol, recommendation |-> "HOLD",
                   targetPrice |-> Num(100 * PriceScale),
                   confidence |-> 50, reason |-> <<"Invalid price data">>]
             ELSE LET predictedPrice == predictNextDay(data, random)
                      scoring == Scoring(prices, predictedPrice.v)
                      category == Categorise(scoring.score)
                  IN  [symbol |-> symbol, recommendation |-> category.recommendation,
                       targetPrice |-> TargetPrice(predictedPrice),
                       confidence |-> Min(category.confidence, 95),
                       reason |-> ReasonText(scoring.reasons)]

\* priorityOrder
priorityOrder(recommendation) ==
    CASE recommendation = "BUY" -> 3
      [] recommendation = "HOLD" -> 2
      [] OTHER -> 1

\* Compare on the confidence alone
Compare_ConfidenceOnly(a, b) == b.confidence - a.confidence

\* the comparator of the sort: negative when a sorts before b
Compare(a, b) ==
    LET aPriority == priorityOrder(a.recommendation)
        bPriority == priorityOrder(b.recommendation)
    IN  IF aPriority # bPriority THEN bPriority - aPriority
        ELSE b.confidence - a.confidence

RECURSIVE InsertSorted(_, _)
\* x placed after every element of the sorted list that does not sort after it
InsertSorted(sorted, x) ==
    IF Len(sorted) = 0 THEN <<x>>
    ELSE IF Compare(sorted[Len(sorted)], x) <= 0 THEN Append(sorted, x)
    ELSE Append(InsertSorted(SubSeq(sorted, 1, Len(sorted) - 1), x), sorted[Len(sorted)])

RECURSIVE SortFrom(_, _, _)
\* Array.prototype.sort with the comparator: a stable sort
SortFrom(list, j, sorted) ==
    IF j > Len(list) THEN sorted
    ELSE SortFrom(list, j + 1, InsertSorted(sorted, list[j]))

generateInvestmentRecommendations(stocks, pattern) ==
    SortFrom([j \in 1..Len(stocks) |->
                 Recommend(stocks[j].symbol, stocks[j].data, RandomAt(pattern, j - 1))],
             1, <<>>)

----------------------------------------------------------------------------
(* The arrays the indicator functions return for any array of finite        *)
(* numbers, the empty one included, as JavaScript values                     *)

\* a - b on JavaScript values (finite numbers, NaN, undefined)
Minus(a, b) == IF a.k = "num" /\ b.k = "num" THEN Num(a.v - b.v) ELSE NaN

\* the array of numbers as JavaScript values
AsValues(numbers) == [i \in 1..Len(numbers) |-> Num(numbers[i])]

MovingAverageArray(data, window) == AsValues(calculateMovingAverage(data, window))

\* gains has one entry per index 1 .. prices.length - 1, and rsi one per gain
RSIArray(prices, period) == AsValues(calculateRSI(prices, period))

\* ema = [prices[0]] followed by one push per index 1 .. prices.length - 1;
\* prices[0] is undefined when prices is empty
EMAArray(prices, period) ==
    <<At(prices, 0)>>
    \o [i \in 1..(Len(prices) - 1) |-> Num(calculateEMA(prices, period)[i + 1])]

\* { macd, signal, histogram }; on the empty array ema12 and ema26 are
\* [undefined], so macd is [NaN], its EMA is [NaN] and the histogram [NaN]
MACDArrays(prices) ==
    IF Len(prices) = 0
    THEN LET ema12 == EMAArray(prices, 12)
             ema26 == EMAArray(prices, 26)
             macd == [i \in 1..Len(ema12) |-> Minus(ema12[i], ema26[i])]
             signal == <<macd[1]>>
             histogram == [i \in 1..Len(macd) |-> Minus(macd[i], signal[i])]
         IN  <<macd, signal, histogram>>
    ELSE LET arrays == calculateMACD(prices)
         IN  <<AsValues(arrays.macd), AsValues(arrays.signal), AsValues(arrays.histogram)>>

\* the bands array, as the arrays of its upper, middle and lower fields
BollingerArrays(prices) ==
    LET bands == calculateBollingerBands(prices, 20, 2)
    IN  <<[i \in 1..Len(bands) |-> Num(bands[i].upper)],
          [i \in 1..Len(bands) |-> Num(bands[i].middle)],
          [i \in 1..Len(bands) |-> Num(bands[i].lower)]>>

----------------------------------------------------------------------------
(* Exceptions: the property reads and reductions that can throw a TypeError *)

\* arr[i].field, for an array of the length, throws when arr[i] is undefined
\* (i outside the array)
ElementReadThrows(length, i) == ~(i >= 0 /\ i < length)

\* OptionalReadThrows with the optional chaining left out
OptionalReadThrows_Plain(length, i) == ~(i >= 0 /\ i < length)

\* arr[i]?.field yields undefined instead of throwing
OptionalReadThrows(length, i) == FALSE

\* arr[i] && arr[i].field reads the field only of a defined element
GuardedReadThrows(length, i) == (i >= 0 /\ i < length) /\ ElementReadThrows(length, i)

\* arr.reduce(f) throws on an empty array; arr.reduce(f, initial) never does
ReduceThrows(arr, hasInitial) == Len(arr) = 0 /\ ~hasInitial

\* the indicator functions index their arrays and reduce slices with the
\* initial value 0
IndicatorsThrow(prices) ==
    \E window \in {14, 20, 50} : ReduceThrows(SliceLast(prices, window), TRUE)

predictNextDayThrows(historicalData) ==
    IF Len(historicalData) < MinBars
    THEN OptionalReadThrows(Len(historicalData), Len(historicalData) - 1)
    ELSE LET prices == FilterPrices(historicalData)
             volumes == FilterVolumes(historicalData)
         IN  IF ~validateData(prices)
             THEN OptionalReadThrows(Len(historicalData), Len(historicalData) - 1)
             ELSE \/ IndicatorsThrow(prices)
                  \* (bollinger has one entry per price)
                  \/ GuardedReadThrows(Len(prices), Len(prices) - 1)
                  \/ (Len(volumes) > 20 /\ ReduceThrows(SliceLast(volumes, 20), TRUE))

generatePredictionsThrows(historicalData, nDays) ==
    IF Len(ActualPrices(historicalData)) < MinBars THEN FALSE
    ELSE \E i \in Max(MinBars, Len(historicalData) - nDays)..(Len(historicalData) - 1) :
            \/ predictNextDayThrows(SubSeq(historicalData, 1, i))
            \/ ElementReadThrows(Len(historicalData), i)

\* the callback of stocksData.map
RecommendThrows(data) ==
    IF Len(data) < MinBars THEN OptionalReadThrows(Len(data), Len(data) - 1)
    ELSE IF ~validateData(FilterPrices(data)) THEN FALSE
    ELSE predictNextDayThrows(data) \/ IndicatorsThrow(FilterPrices(data))

generateInvestmentRecommendationsThrows(stocks) ==
    \E j \in 1..Len(stocks) : RecommendThrows(stocks[j].data)

----------------------------------------------------------------------------
(* The inputs after a call *)

\* historicalData after predictNextDay or generatePredictions: the code
\* reads it through length, index, map and slice, which build new arrays
SeriesAfterCall(historicalData) == historicalData

\* StocksAfterCall with the sort applied to stocksData itself
StocksAfterCall_SortedInPlace(stocksData, result) ==
    [j \in 1..Len(stocksData) |->
        stocksData[CHOOSE i \in 1..Len(stocksData) :
                      stocksData[i].symbol = result[j].symbol]]

\* stocksData after generateInvestmentRecommendations: map builds a new
\* array, and it is that array the sort reorders in place
StocksAfterCall(stocksData, result) == stocksData

----------------------------------------------------------------------------
(* Inputs *)

MaxShort == 2      \* short series have 0..MaxShort bars, or MinBars - 1
MaxExtra == 12     \* long series have up to MinBars + MaxExtra valid bars
MaxStocks == 2     \* (symbol, data) pairs in one recommendation request

\* the close of bar i (0-based) of each shape of series, in PriceScale
ShapeClose(shape, i) ==
    CASE shape = "rising" -> (100 + i) * PriceScale
      [] shape = "falling" -> (200 - i) * PriceScale
      [] shape = "flat" -> 100 * PriceScale
      [] shape = "spiky" -> IF i < 30 THEN 100 * PriceScale
                            ELSE IF i % 3 = 0 THEN 1 * PriceScale
                            ELSE 7 * PriceScale
      [] shape = "surging" -> IF i < 52 THEN 20 * PriceScale
                              ELSE (20 + 8 * (i - 51)) * PriceScale
      [] OTHER -> (100 + 3 * (i % 2)) * PriceScale + 10 * i

\* a series of bad invalid closes of value badClose followed by n bars of the shape
MakeSeries(shape, n, bad, badClose) ==
    [i \in 1..(bad + n) |->
        [date |-> i,
         close |-> IF i <= bad THEN badClose ELSE Num(ShapeClose(shape, i - bad - 1)),
         volume |-> Num(1000 + 10 * (i % 3))]]

\* the series with the volume of every bar (every = TRUE) or of the last
\* bar only replaced by the value
WithVolume(series, volume, every) ==
    [i \in 1..Len(series) |->
        IF every \/ i = Len(series)
        THEN [date |-> series[i].date, close |-> series[i].close, volume |-> volume]
        ELSE series[i]]

Shapes == {"rising", "falling", "flat", "zigzag"}
Lengths == (0..MaxShort) \cup {MinBars - 1, MinBars, MinBars + 1, MinBars + MaxExtra}
BadCloses == {NaN, Infinity, Num(0), Num(-5 * PriceScale)}
BadCounts == {1, MinBars}
BadVolumes == {NaN, Infinity, Num(0), Num(-1000)}

SeriesPool ==
    {MakeSeries(shape, n, 0, NaN) : shape \in Shapes, n \in Lengths}
    \cup {MakeSeries("rising", n, bad, badClose) :
            n \in Lengths, bad \in BadCounts, badClose \in BadCloses}
    \cup {WithVolume(MakeSeries("rising", n, 0, NaN), volume, every) :
            n \in {MaxShort, MinBars + MaxExtra}, volume \in BadVolumes,
            every \in BOOLEAN}
    \cup {MakeSeries("surging", MinBars + 12, 0, NaN)}

\* the series recommendations are requested for
RecPool ==
    {MakeSeries("rising", MinBars + MaxExtra, 0, NaN),
     MakeSeries("falling", MinBars + MaxExtra, 0, NaN),
     MakeSeries("flat", MinBars, 0, NaN),
     WithVolume(MakeSeries("flat", MinBars, 0, NaN), Num(1), FALSE),
     MakeSeries("spiky", MinBars + 11, 0, NaN),
     MakeSeries("rising", 0, 0, NaN),
     MakeSeries("rising", MaxShort, 1, Num(0)),
     MakeSeries("rising", 0, 1, Num(0)),
     MakeSeries("rising", 0, 1, Num(-5 * PriceScale)),
     MakeSeries("rising", MinBars, 1, NaN),
     MakeSeries("rising", 0, MinBars, Infinity)}

Symbols == <<"TCS.NS", "INFY.NS", "RELIANCE.NS", "WIPRO.NS", "ITC.NS">>

\* the series of the pairs after the second of a request
TailPool ==
    {MakeSeries("rising", MinBars + MaxExtra, 0, NaN),
     MakeSeries("rising", 0, 0, NaN)}

\* the requests of n pairs, the pair at position j carrying symbol j
StockLists(n) ==
    {[j \in 1..n |-> [symbol |-> Symbols[j], data |-> f[j]]] :
        f \in {g \in [1..n -> RecPool] : \A j \in 3..n : g[j] \in TailPool}}

Patterns == {"low", "mid", "high", "alternating"}

\* the lengths of the arrays handed to the indicator functions: empty and
\* short ones, and one below, at and above each window
IndicatorLengths == (0..MaxShort) \cup {13, 14, 15, 19, 20, 21, 26, 27}

\* the number arrays handed to the indicator functions
IndicatorInputs ==
    {[i \in 1..n |-> ShapeClose(shape, i - 1)] :
        shape \in {"rising", "falling", "zigzag"}, n \in IndicatorLengths}
\* the period arguments of calculateRSI: the default 14, and shorter ones
RSIPeriods == {1, 5, 14}
DaysValues == {0, 3, 30, MinBars + MaxExtra}

----------------------------------------------------------------------------
(* The App component (src/App.tsx): stock selection, refresh and loads *)

MaxInFlight == 3   \* loadStockData calls awaiting their fetches at one time

\* the symbols the selector can hand to handleStockChange;
\* validateNSESymbol leaves each of them as it is
StockSymbols == {"RELIANCE.NS", "TCS.NS", "HDFCBANK.NS"}

\* the states loadStockData sets after its fetches
ShownStates ==
    {"stockData", "historicalData", "predictions", "nextDayPrediction",
     "currentStockRecommendation"}

\* the sequence without its element k
RemoveAt(seq, k) == SubSeq(seq, 1, k - 1) \o SubSeq(seq, k + 1, Len(seq))

\* App after the first render and its effect: selectedStock is
\* POPULAR_STOCKS[0].symbol, nothing is displayed yet, and the effect's
\* loadStockData call has set loading and awaits its fetches
AppMounted ==
    /\ selectedStock = "RELIANCE.NS"
    /\ shown = [state \in ShownStates |-> "none"]
    /\ loading = TRUE
    /\ loads = <<"RELIANCE.NS">>

\* App left alone
AppIdle ==
    /\ selectedStock = "RELIANCE.NS"
    /\ shown = [state \in ShownStates |-> "none"]
    /\ loading = FALSE
    /\ loads = <<>>

\* the predictor left alone
PredictorIdle ==
    /\ pc = "idle"
    /\ argData = <<>>
    /\ argStocks = <<>>
    /\ argDays = 0
    /\ randomSource = "mid"
    /\ nextDay = undefined
    /\ predictions = <<>>
    /\ recommendations = <<>>
    /\ raised = FALSE
    /\ nextDayAgain = undefined
    /\ indicatorInput = <<>>
    /\ indicatorOutput = <<>>
    /\ indicatorPeriod = 0

\* handleStockChange(symbol) for another symbol than the selected one, and
\* the effect on [selectedStock] that follows the render: loadStockData
\* runs up to its await with the new selectedStock
HandleStockChange ==
    /\ Len(loads) < MaxInFlight
    /\ \E symbol \in StockSymbols \ {selectedStock} :
          /\ selectedStock' = symbol
          /\ loads' = Append(loads, symbol)
    /\ loading' = TRUE
    /\ UNCHANGED <<shown, predictorVars, selectorVars, apiVars>>

\* handleRefresh: the button is disabled while loading is true
HandleRefresh ==
    /\ ~loading
    /\ Len(loads) < MaxInFlight
    /\ loads' = Append(loads, selectedStock)
    /\ loading' = TRUE
    /\ UNCHANGED <<selectedStock, shown, predictorVars, selectorVars, apiVars>>

\* the fetches of one awaiting loadStockData call resolve (in any order
\* among the calls): the call sets the displayed states from what it
\* fetched for its symbol, and its finally block clears loading
LoadCompletes ==
    /\ \E k \in 1..Len(loads) :
          /\ shown' = [state \in ShownStates |-> loads[k]]
          /\ loads' = RemoveAt(loads, k)
    /\ loading' = FALSE
    /\ UNCHANGED <<selectedStock, predictorVars, selectorVars, apiVars>>

----------------------------------------------------------------------------
(* The StockSelector component (src/unnamed/part_002): debounced search *)

MaxTimeouts == 3   \* setTimeout calls handleSearch makes in one run

\* a query is the sequence of the characters typed into the input
Queries == {<<>>, <<" ">>, <<"t">>, <<"t", "c">>, <<"t", "c", "s">>}

RECURSIVE TrimStart(_)
\* query.trimStart()
TrimStart(query) ==
    IF query # <<>> /\ Head(query) = " " THEN TrimStart(Tail(query)) ELSE query

RECURSIVE TrimEnd(_)
\* query.trimEnd()
TrimEnd(query) ==
    IF query # <<>> /\ query[Len(query)] = " "
    THEN TrimEnd(SubSeq(query, 1, Len(query) - 1))
    ELSE query

\* query.trim()
Trim(query) == TrimEnd(TrimStart(query))

\* what a searchResults value was computed from
PopularResults == [kind |-> "popular", query |-> <<>>]   \* POPULAR_STOCKS.slice(0, 10)
LocalResults(query) == [kind |-> "local", query |-> query]   \* getStockSuggestions(query)
ApiResults(query) == [kind |-> "api", query |-> query]   \* searchStocks(query) and the local ones

\* StockSelector after mount and the focus of its input: handleInputFocus
\* with the empty query sets the popular list; no timeout was set yet
SelectorFocused ==
    /\ searchQuery = <<>>
    /\ searchResults = PopularResults
    /\ isSearching = FALSE
    /\ timers = {}
    /\ searchTimeoutRef = 0
    /\ searches = <<>>

\* handleSearch(query), the input's onChange: a blank query sets the popular
\* list and returns, leaving a timeout that is pending as it is; another
\* query clears the timeout searchTimeoutRef holds and sets a new one
HandleSearch ==
    \E query \in Queries \ {searchQuery} :
       /\ searchQuery' = query
       /\ IF Trim(query) = <<>>
          THEN /\ searchResults' = PopularResults
               /\ UNCHANGED <<timers, searchTimeoutRef>>
          ELSE /\ searchTimeoutRef < MaxTimeouts
               /\ timers' = {timer \in timers : timer.id # searchTimeoutRef}
                               \cup {[id |-> searchTimeoutRef + 1, query |-> query]}
               /\ searchTimeoutRef' = searchTimeoutRef + 1
               /\ UNCHANGED searchResults
       /\ UNCHANGED <<isSearching, searches, predictorVars, appVars, apiVars>>

\* clearSearch, the button shown while searchQuery is not empty
ClearSearch ==
    /\ searchQuery # <<>>
    /\ searchQuery' = <<>>
    /\ searchResults' = PopularResults
    /\ UNCHANGED <<isSearching, timers, searchTimeoutRef, searches, predictorVars,
                   appVars, apiVars>>

\* a pending timeout fires after its 300 ms: the callback sets the local
\* suggestions of the query it was set for and, for a query of two
\* characters or more, awaits searchStocks; for a shorter one its finally
\* block runs at once
TimeoutFires ==
    \E timer \in timers :
       /\ timers' = timers \ {timer}
       /\ searchResults' = LocalResults(timer.query)
       /\ IF Len(timer.query) >= 2
          THEN /\ isSearching' = TRUE
               /\ searches' = Append(searches, timer.query)
          ELSE /\ isSearching' = FALSE
               /\ UNCHANGED searches
       /\ UNCHANGED <<searchQuery, searchTimeoutRef, predictorVars, appVars, apiVars>>

\* one awaited searchStocks call resolves (in any order among the calls):
\* the callback sets the combined results when the call found any, and its
\* finally block clears isSearching
SearchCompletes ==
    \E k \in 1..Len(searches), found \in BOOLEAN :
       /\ searchResults' = IF found THEN ApiResults(searches[k]) ELSE searchResults
       /\ searches' = RemoveAt(searches, k)
       /\ isSearching' = FALSE
       /\ UNCHANGED <<searchQuery, timers, searchTimeoutRef, predictorVars, appVars, apiVars>>

----------------------------------------------------------------------------
(* makeRobustApiCall (src/stock.ts): endpoints, proxies and fallbacks *)

\* API_ENDPOINTS and CORS_PROXIES, by name
API_ENDPOINTS == <<"Yahoo Finance V8", "Yahoo Finance V7">>
CORS_PROXIES == <<"allorigins", "cors-anywhere", "codetabs", "thingproxy">>

EndpointArgs == {"quote", "historical"}

\* what one axios.get can end in: no response (a network error or the
\* timeout), or a response with a status and a body; the body is empty
\* (falsy), a string that is not JSON, a string that is JSON, or an object
Statuses == {200, 404, 503}
Bodies == {"empty", "text", "jsonText", "object"}
NoResponse == [status |-> 0, data |-> "empty"]
Responses == {NoResponse} \cup [status : Statuses, data : Bodies]

\* axios.get rejects without a response, and when validateStatus
\* (status < 500) is false
Rejects(response) == response.status = 0 \/ ~(response.status < 500)

\* the test without its status part
Accepted_AnyStatus(response) == response.data # "empty"

\* response.data && response.status === 200
Accepted(response) == response.data # "empty" /\ response.status = 200

\* JSON.parse(response.data) throws
ParseThrows(response) == response.data = "text"

\* the direct call returns response.data as it is
DirectData(response) == response.data

\* the proxied call returns the parsed value of a string, else the object
ProxyData(response) == IF response.data = "jsonText" THEN "parsed" ELSE response.data

\* status 200 with data that is not empty
Answered(response) ==
    ~Rejects(response) /\ response.status = 200 /\ response.data # "empty"

\* the entry of the request log for one axios.get: where it went, whether
\* it was answered, and whether the answer was a string that is not JSON
Request(via, response) ==
    [api |-> API_ENDPOINTS[apiIndex], via |-> via,
     answered |-> Answered(response),
     unparsable |-> Answered(response) /\ response.data = "text"]

\* no makeRobustApiCall in progress
ApiIdle ==
    /\ apiPc = "idle"
    /\ apiEndpoint = "quote"
    /\ apiIndex = 1
    /\ proxyIndex = 0
    /\ requests = <<>>
    /\ apiResult = "none"

\* makeRobustApiCall(symbol, endpoint) up to its first await
CallApi ==
    /\ apiPc = "idle"
    /\ \E endpoint \in EndpointArgs : apiEndpoint' = endpoint
    /\ apiPc' = "running"
    /\ UNCHANGED <<apiIndex, proxyIndex, requests, apiResult, predictorVars, appVars,
                   selectorVars>>

\* the direct axios.get of the current endpoint settles: its data is
\* returned when accepted, else the loop over the proxies begins
DirectCall ==
    /\ apiPc = "running"
    /\ proxyIndex = 0
    /\ \E response \in Responses :
          /\ requests' = Append(requests, Request("direct", response))
          /\ IF ~Rejects(response) /\ Accepted(response)
             THEN /\ apiPc' = "returned"
                  /\ apiResult' = DirectData(response)
                  /\ UNCHANGED proxyIndex
             ELSE /\ proxyIndex' = 1
                  /\ UNCHANGED <<apiPc, apiResult>>
    /\ UNCHANGED <<apiEndpoint, apiIndex, predictorVars, appVars, selectorVars>>

\* the axios.get through the current proxy settles: its data is returned
\* when accepted and parsed; else the next proxy follows, after the last
\* proxy the next endpoint, and after the last endpoint the throw
ProxyCall ==
    /\ apiPc = "running"
    /\ proxyIndex >= 1
    /\ \E response \in Responses :
          /\ requests' = Append(requests, Request(CORS_PROXIES[proxyIndex], response))
          /\ IF ~Rejects(response) /\ Accepted(response) /\ ~ParseThrows(response)
             THEN /\ apiPc' = "returned"
                  /\ apiResult' = ProxyData(response)
                  /\ UNCHANGED <<apiIndex, proxyIndex>>
             ELSE /\ UNCHANGED apiResult
                  /\ IF proxyIndex < Len(CORS_PROXIES)
                     THEN /\ proxyIndex' = proxyIndex + 1
                          /\ UNCHANGED <<apiPc, apiIndex>>
                     ELSE IF apiIndex < Len(API_ENDPOINTS)
                          THEN /\ apiIndex' = apiIndex + 1
                               /\ proxyIndex' = 0
                               /\ UNCHANGED apiPc
                          ELSE /\ apiPc' = "thrown"
                               /\ UNCHANGED <<apiIndex, proxyIndex>>
    /\ UNCHANGED <<apiEndpoint, predictorVars, appVars, selectorVars>>

InitApi == PredictorIdle /\ AppIdle /\ SelectorFocused /\ ApiIdle

NextApi ==
    \/ CallApi
    \/ DirectCall
    \/ ProxyCall

SpecApi == InitApi /\ [][NextApi]_vars

\* every axios.get settles: each carries a timeout of 12 or 15 seconds
SpecApiLive == SpecApi /\ WF_vars(DirectCall) /\ WF_vars(ProxyCall)

----------------------------------------------------------------------------
(* The specifications of the components *)

\* the components left alone
UIIdle == AppIdle /\ SelectorFocused /\ ApiIdle

InitApp == PredictorIdle /\ AppMounted /\ SelectorFocused /\ ApiIdle

NextApp ==
    \/ HandleStockChange
    \/ HandleRefresh
    \/ LoadCompletes

SpecApp == InitApp /\ [][NextApp]_vars

InitSelector == PredictorIdle /\ AppIdle /\ SelectorFocused /\ ApiIdle

NextSelector ==
    \/ HandleSearch
    \/ ClearSearch
    \/ TimeoutFires
    \/ SearchCompletes

SpecSelector == InitSelector /\ [][NextSelector]_vars

----------------------------------------------------------------------------
(* Calls *)

Init ==
    /\ pc = "idle"
    /\ \/ argData \in SeriesPool /\ argStocks = <<>>
       \/ argData = <<>> /\ \E n \in 1..MaxStocks : argStocks \in StockLists(n)
    /\ argDays = 0
    /\ randomSource = "mid"
    /\ nextDay = undefined
    /\ predictions = <<>>
    /\ recommendations = <<>>
    /\ raised = FALSE
    /\ nextDayAgain = undefined
    /\ indicatorInput = <<>>
    /\ indicatorOutput = <<>>
    /\ indicatorPeriod = 0
    /\ UIIdle

\* a state offers either a series, for predictNextDay and generatePredictions,
\* or a request, for generateInvestmentRecommendations
PredictNextDay ==
    /\ pc = "idle"
    /\ argStocks = <<>>
    /\ raised' = predictNextDayThrows(argData)
    /\ \E pattern \in Patterns :
          /\ randomSource' = pattern
          /\ nextDay' = IF raised' THEN nextDay
                        ELSE predictNextDay(argData, RandomAt(pattern, 0))
    /\ argData' = SeriesAfterCall(argData)
    /\ pc' = "predictNextDay"
    /\ UNCHANGED <<argStocks, argDays, predictions, recommendations, nextDayAgain,
                   indicatorInput, indicatorOutput, indicatorPeriod, uiVars>>

\* PredictNextDayAgain on an instance that kept the last bar of the earlier call
PredictNextDayAgain_KeptBar ==
    /\ pc = "predictNextDay"
    /\ ~raised
    /\ raised' = predictNextDayThrows(argData)
    /\ nextDayAgain' = IF raised' \/ Len(argData) = 0 THEN nextDayAgain
                         ELSE predictNextDay(Append(argData, argData[Len(argData)]),
                                             RandomAt(randomSource, 1))
    /\ argData' = SeriesAfterCall(argData)
    /\ pc' = "predictNextDayAgain"
    /\ UNCHANGED <<argStocks, argDays, randomSource, nextDay, predictions,
                   recommendations, indicatorInput, indicatorOutput, indicatorPeriod, uiVars>>

\* a second call of predictNextDay on the same series, Math.random() giving
\* the next value of the random source; the instance has no fields, so the
\* call sees nothing of the first
PredictNextDayAgain ==
    /\ pc = "predictNextDay"
    /\ ~raised
    /\ raised' = predictNextDayThrows(argData)
    /\ nextDayAgain' = IF raised' THEN nextDayAgain
                         ELSE predictNextDay(argData, RandomAt(randomSource, 1))
    /\ argData' = SeriesAfterCall(argData)
    /\ pc' = "predictNextDayAgain"
    /\ UNCHANGED <<argStocks, argDays, randomSource, nextDay, predictions,
                   recommendations, indicatorInput, indicatorOutput, indicatorPeriod, uiVars>>

GeneratePredictions ==
    /\ pc = "idle"
    /\ argStocks = <<>>
    /\ \E nDays \in DaysValues, pattern \in Patterns :
          /\ argDays' = nDays
          /\ randomSource' = pattern
          /\ raised' = generatePredictionsThrows(argData, nDays)
          /\ predictions' = IF raised' THEN predictions
                            ELSE generatePredictions(argData, nDays, pattern)
    /\ argData' = SeriesAfterCall(argData)
    /\ pc' = "generatePredictions"
    /\ UNCHANGED <<argStocks, nextDay, recommendations, nextDayAgain,
                   indicatorInput, indicatorOutput, indicatorPeriod, uiVars>>

GenerateInvestmentRecommendations ==
    /\ pc = "idle"
    /\ argData = <<>>
    /\ raised' = generateInvestmentRecommendationsThrows(argStocks)
    /\ \E pattern \in Patterns \ {"mid"} :
          /\ randomSource' = pattern
          /\ recommendations' = IF raised' THEN recommendations
                                ELSE generateInvestmentRecommendations(argStocks, pattern)
    /\ argStocks' = IF raised' THEN argStocks
                    ELSE StocksAfterCall(argStocks, recommendations')
    /\ pc' = "generateInvestmentRecommendations"
    /\ UNCHANGED <<argData, argDays, nextDay, predictions, nextDayAgain,
                   indicatorInput, indicatorOutput, indicatorPeriod, uiVars>>

Next ==
    \/ PredictNextDay
    \/ PredictNextDayAgain
    \/ GeneratePredictions
    \/ GenerateInvestmentRecommendations

Spec == Init /\ [][Next]_vars

----------------------------------------------------------------------------
(* Calls of the indicator functions on their own *)

InitIndicators ==
    /\ pc = "idle"
    /\ argData = <<>>
    /\ argStocks = <<>>
    /\ argDays = 0
    /\ randomSource = "mid"
    /\ nextDay = undefined
    /\ predictions = <<>>
    /\ recommendations = <<>>
    /\ raised = FALSE
    /\ nextDayAgain = undefined
    /\ indicatorInput \in IndicatorInputs
    /\ indicatorOutput = <<>>
    /\ indicatorPeriod = 0
    /\ UIIdle

\* what an indicator call leaves alone
IndicatorFrame ==
    UNCHANGED <<argData, argStocks, argDays, randomSource, nextDay, predictions,
                recommendations, raised, nextDayAgain, indicatorInput, uiVars>>

CalculateMovingAverage ==
    /\ pc = "idle"
    /\ \E window \in {20, 50} :
          /\ indicatorPeriod' = window
          /\ indicatorOutput' = <<MovingAverageArray(indicatorInput, window)>>
    /\ pc' = "calculateMovingAverage"
    /\ IndicatorFrame

CalculateEMA ==
    /\ pc = "idle"
    /\ \E period \in {12, 26} :
          /\ indicatorPeriod' = period
          /\ indicatorOutput' = <<EMAArray(indicatorInput, period)>>
    /\ pc' = "calculateEMA"
    /\ IndicatorFrame

CalculateRSI ==
    /\ pc = "idle"
    /\ \E period \in RSIPeriods :
          /\ indicatorPeriod' = period
          /\ indicatorOutput' = <<RSIArray(indicatorInput, period)>>
    /\ pc' = "calculateRSI"
    /\ IndicatorFrame

CalculateMACD ==
    /\ pc = "idle"
    /\ indicatorOutput' = MACDArrays(indicatorInput)
    /\ indicatorPeriod' = 0
    /\ pc' = "calculateMACD"
    /\ IndicatorFrame

CalculateBollingerBands ==
    /\ pc = "idle"
    /\ indicatorOutput' = BollingerArrays(indicatorInput)
    /\ indicatorPeriod' = 20
    /\ pc' = "calculateBollingerBands"
    /\ IndicatorFrame

NextIndicators ==
    \/ CalculateMovingAverage
    \/ CalculateEMA
    \/ CalculateRSI
    \/ CalculateMACD
    \/ CalculateBollingerBands

SpecIndicators == InitIndicators /\ [][NextIndicators]_vars

----------------------------------------------------------------------------
(* Properties of predictNextDay *)

\* a close that is a strictly positive finite number
PositiveFinite(x) == x.k = "num" /\ x.v > 0

AllClosesValid(data) == \A i \in 1..Len(data) : PositiveFinite(data[i].close)

\* the number of strictly positive finite closes of the series
ValidCloseCount(data) ==
    Cardinality({i \in 1..Len(data) : PositiveFinite(data[i].close)})

\* C1: for a series of at least 50 bars whose closes are all strictly
\* positive and finite, predictNextDay returns v with
\* lastClose * 0.92 <= v <= lastClose * 1.08, whatever Math.random() returns.
C1_WithinBand ==
    (pc = "predictNextDay" /\ Len(argData) >= 50 /\ AllClosesValid(argData))
    => /\ nextDay.k = "num"
       /\ nextDay.v * 100 >= argData[Len(argData)].close.v * 92
       /\ nextDay.v * 100 <= argData[Len(argData)].close.v * 108

C1_Witness ==
    /\ pc = "predictNextDay" /\ Len(argData) > 50 /\ AllClosesValid(argData)
    /\ randomSource = "high"
    /\ nextDay.k = "num"
    /\ nextDay.v > argData[Len(argData)].close.v
    /\ argData[Len(argData)].close.v * 92 > argData[1].close.v * 108

\* C2: for a series of fewer than 50 bars predictNextDay returns exactly the
\* close of the last bar, and 100 when that close is unavailable or
\* non-finite (the empty series included).
C2_ShortSeriesLastClose ==
    (pc = "predictNextDay" /\ Len(argData) < 50)
    => nextDay = IF Len(argData) > 0 /\ argData[Len(argData)].close.k = "num"
                 THEN argData[Len(argData)].close
                 ELSE Num(100 * PriceScale)

\* C3: for every input series the value predictNextDay returns is a
\* strictly positive finite number.
C3_PositiveFiniteResult ==
    pc = "predictNextDay" => PositiveFinite(nextDay)

----------------------------------------------------------------------------
(* Properties of generatePredictions *)

\* C4: generatePredictions never returns an entry whose actual or predicted
\* is <= 0 or non-finite.
C4_EntriesPositiveFinite ==
    pc = "generatePredictions"
    => \A j \in 1..Len(predictions) :
          PositiveFinite(predictions[j].actual) /\ PositiveFinite(predictions[j].predicted)

\* C10: generatePredictions returns the empty sequence whenever the series
\* holds fewer than 50 strictly positive finite closes.
C10_EmptyBelowFiftyValid ==
    (pc = "generatePredictions" /\ ValidCloseCount(argData) < 50)
    => predictions = <<>>

C10_Witness ==
    /\ pc = "generatePredictions"
    /\ Len(argData) > 50
    /\ ValidCloseCount(argData) < 50
    /\ ValidCloseCount(argData) > 0
    /\ argDays > 0
    /\ predictions = <<>>

----------------------------------------------------------------------------
(* Properties of generateInvestmentRecommendations *)

\* the position in the request of the pair with the symbol
InputIndex(symbol) == CHOOSE j \in 1..Len(argStocks) : argStocks[j].symbol = symbol

\* the series a recommendation was made for
InputData(r) == argStocks[InputIndex(r.symbol)].data

\* the value predictNextDay returned during the call for the
\* recommendation's pair
PredictedFor(r) ==
    predictNextDay(InputData(r), RandomAt(randomSource, InputIndex(r.symbol) - 1))

\* a pair that reaches the scoring: at least 50 bars, a valid close among them
IsScored(data) == Len(data) >= 50 /\ ValidCloseCount(data) > 0

ScoreFor(r) == Scoring(FilterPrices(InputData(r)), PredictedFor(r).v).score

Done == pc = "generateInvestmentRecommendations"

Rank(r) == IF r.recommendation = "BUY" THEN 0 ELSE IF r.recommendation = "HOLD" THEN 1 ELSE 2

\* C5: the returned list holds exactly one recommendation per input pair,
\* every BUY precedes every HOLD and every HOLD every SELL, and within one
\* category the confidences do not increase; index 0 is a BUY if any is.
C5_SortedByCategoryThenConfidence ==
    Done =>
       /\ Len(recommendations) = Len(argStocks)
       /\ \A j \in 1..Len(argStocks) :
             Cardinality({i \in 1..Len(recommendations) :
                            recommendations[i].symbol = argStocks[j].symbol}) = 1
       /\ \A i, j \in 1..Len(recommendations) :
             i < j => /\ Rank(recommendations[i]) <= Rank(recommendations[j])
                      /\ Rank(recommendations[i]) = Rank(recommendations[j])
                         => recommendations[i].confidence >= recommendations[j].confidence
       /\ (\E i \in 1..Len(recommendations) : recommendations[i].recommendation = "BUY")
          => recommendations[1].recommendation = "BUY"

C5_Witness ==
    /\ Done
    /\ Len(recommendations) >= 2
    /\ recommendations[1].recommendation = "BUY"
    /\ recommendations[2].recommendation # "BUY"
    /\ recommendations[1].confidence > recommendations[2].confidence
    /\ recommendations[1].symbol = argStocks[2].symbol

\* C6: a scored recommendation's total score s maps to BUY with confidence
\* min(0.92, 0.75 + 0.03 s) when s >= 5, to SELL with confidence
\* min(0.88, 0.70 + 0.03 |s|) when s <= -4, and to HOLD with confidence
\* 0.70 + 0.02 |s| otherwise.
C6_ScoreToCategory ==
    Done =>
       \A i \in 1..Len(recommendations) :
          LET r == recommendations[i]
          IN  IsScored(InputData(r)) =>
                 LET score == ScoreFor(r)
                 IN  /\ score >= 5 => /\ r.recommendation = "BUY"
                                      /\ r.confidence = Min(92, 75 + 3 * score)
                     /\ score <= -4 => /\ r.recommendation = "SELL"
                                       /\ r.confidence = Min(88, 70 + 3 * Abs(score))
                     /\ (score > -4 /\ score < 5)
                        => /\ r.recommendation = "HOLD"
                           /\ r.confidence = 70 + 2 * Abs(score)

C6_Witness ==
    /\ Done
    /\ \E i \in 1..Len(recommendations) : recommendations[i].recommendation = "SELL"
    /\ \E i \in 1..Len(recommendations) :
          /\ recommendations[i].recommendation = "HOLD"
          /\ IsScored(InputData(recommendations[i]))
          /\ recommendations[i].confidence > 70

\* C7 as stated: for a pair of fewer than 50 bars the recommendation is a
\* HOLD with confidence 0.5, an insufficient-data reason, and targetPrice
\* the last close, or 100 when the last close is unavailable.
C7_TargetIsLastClose ==
    Done =>
       \A i \in 1..Len(recommendations) :
          LET r == recommendations[i]
              data == InputData(r)
          IN  Len(data) < 50 =>
                 /\ r.recommendation = "HOLD"
                 /\ r.confidence = 50
                 /\ r.reason = <<"Insufficient data for analysis">>
                 /\ r.targetPrice = IF Len(data) = 0 THEN Num(100 * PriceScale)
                                    ELSE data[Len(data)].close

\* C7 amended: for a pair of fewer than 50 bars the recommendation is a HOLD
\* with confidence 0.5, an insufficient-data reason, and targetPrice the
\* last close when that is neither zero nor NaN, and 100 when the last close
\* is unavailable, zero or NaN.
C7_TargetIsLastCloseOr100 ==
    Done =>
       \A i \in 1..Len(recommendations) :
          LET r == recommendations[i]
              data == InputData(r)
              usable == /\ Len(data) > 0
                        /\ data[Len(data)].close.k \in {"num", "Infinity"}
                        /\ data[Len(data)].close # Num(0)
          IN  Len(data) < 50 =>
                 /\ r.recommendation = "HOLD"
                 /\ r.confidence = 50
                 /\ r.reason = <<"Insufficient data for analysis">>
                 /\ r.targetPrice = IF usable THEN data[Len(data)].close
                                    ELSE Num(100 * PriceScale)

C7_Witness ==
    /\ Done
    /\ \E i \in 1..Len(recommendations) :
          LET data == InputData(recommendations[i])
          IN  /\ Len(data) > 0 /\ Len(data) < 50
              /\ data[Len(data)].close = Num(0)
              /\ recommendations[i].targetPrice = Num(100 * PriceScale)
    /\ \E i \in 1..Len(recommendations) :
          LET data == InputData(recommendations[i])
          IN  /\ Len(data) > 0 /\ Len(data) < 50
              /\ PositiveFinite(data[Len(data)].close)
              /\ recommendations[i].targetPrice = data[Len(data)].close

\* the degenerate recommendation of the invalid-data path
IsInvalidDataHold(r) ==
    /\ r.recommendation = "HOLD"
    /\ r.confidence = 50
    /\ r.reason = <<"Invalid price data">>

\* C8 as stated: a pair of at least 50 bars whose series contains a close
\* that is NaN, infinite, zero or negative gets the degenerate HOLD with
\* confidence 0.5 and an invalid-data reason.
C8_AnyInvalidCloseDegenerate ==
    Done =>
       \A i \in 1..Len(recommendations) :
          LET r == recommendations[i]
              data == InputData(r)
          IN  (Len(data) >= 50 /\ ~AllClosesValid(data)) => IsInvalidDataHold(r)

\* C8 amended: a pair of at least 50 bars whose series contains no close
\* that is strictly positive and finite gets the degenerate HOLD with
\* confidence 0.5 and an invalid-data reason.
C8_NoValidCloseDegenerate ==
    Done =>
       \A i \in 1..Len(recommendations) :
          LET r == recommendations[i]
              data == InputData(r)
          IN  (Len(data) >= 50 /\ ValidCloseCount(data) = 0) => IsInvalidDataHold(r)

C8_Witness ==
    /\ Done
    /\ \E i \in 1..Len(recommendations) :
          LET data == InputData(recommendations[i])
          IN  /\ Len(data) >= 50 /\ ValidCloseCount(data) = 0
              /\ IsInvalidDataHold(recommendations[i])
    /\ \E i \in 1..Len(recommendations) :
          LET data == InputData(recommendations[i])
          IN  /\ Len(data) >= 50 /\ ~AllClosesValid(data)
              /\ ~IsInvalidDataHold(recommendations[i])

\* C9: every returned recommendation has a strictly positive targetPrice,
\* and a scored one has targetPrice = max(predictedPrice, 1).
C9_TargetPricePositive ==
    Done =>
       \A i \in 1..Len(recommendations) :
          LET r == recommendations[i]
          IN  /\ PositiveFinite(r.targetPrice)
              /\ IsScored(InputData(r))
                 => r.targetPrice = Num(Max(PredictedFor(r).v, 1 * PriceScale))

----------------------------------------------------------------------------
(* Properties of the three calls together *)

\* C11: predictNextDay, generatePredictions and
\* generateInvestmentRecommendations return a value and never raise, for
\* every series: empty, shorter than an indicator window, or holding NaN,
\* Infinity, zero or negative closes and volumes.
C11_NeverRaises ==
    pc # "idle" =>
       /\ ~raised
       /\ pc = "predictNextDay" => nextDay # undefined
       /\ pc = "predictNextDayAgain" => nextDayAgain # undefined
       /\ pc = "generatePredictions" => DOMAIN predictions = 1..Len(predictions)
       /\ Done => Len(recommendations) = Len(argStocks)

C11_Witness ==
    /\ pc = "generatePredictions"
    /\ ~raised
    /\ Len(argData) > 50
    /\ \E i \in 1..Len(argData) : argData[i].close = Infinity
    /\ Len(predictions) > 0

Reversed(stocks) == [j \in 1..Len(stocks) |-> stocks[Len(stocks) + 1 - j]]

\* Math.random() returns the same value at every position of the call
NoiseFixed == \A j \in 0..MaxStocks : RandomAt(randomSource, j) = RandomAt(randomSource, 0)

\* C14: with the noise fixed, generateInvestmentRecommendations returns the
\* same ordered list for every ordering of the same input pairs (here: for
\* the request and for the request in the opposite order).
C14_SameListForEveryInputOrder ==
    (Done /\ NoiseFixed)
    => generateInvestmentRecommendations(Reversed(argStocks), randomSource) = recommendations

----------------------------------------------------------------------------
(* Properties of the backtest loop *)

\* the 0-based index of the bar an entry carries the date of (the bar at
\* index i of a series of the pool has date i + 1)
EntryIndex(e) == e.date - 1

\* the series with every bar at an index >= i changed: another close where
\* the close is valid, and another volume
ChangedFrom(data, i) ==
    [j \in 1..Len(data) |->
        IF j - 1 >= i
        THEN [date |-> data[j].date,
              close |-> IF PositiveFinite(data[j].close)
                        THEN Num(data[j].close.v + 7 * PriceScale)
                        ELSE data[j].close,
              volume |-> Num(5)]
        ELSE data[j]]

\* the index of the middle entry of the returned predictions
MiddleIndex == EntryIndex(predictions[(Len(predictions) + 1) \div 2])

\* what generatePredictions returns for the series changed from the middle
\* entry's index on, with the same days and random source
ChangedPredictions ==
    generatePredictions(ChangedFrom(argData, MiddleIndex), argDays, randomSource)

\* C15: generatePredictions emits at most one entry per index i from
\* start = max(50, length - days) to length - 1, in ascending index order,
\* and none for another index; the predicted value of the entry for index i
\* is predictNextDay of the bars 0..i-1, so changing bars at indices >= i
\* leaves it unchanged (same random source).
C15_NoLookahead ==
    (pc = "generatePredictions" /\ Len(predictions) > 0) =>
       /\ \A j \in 1..Len(predictions) :
             /\ EntryIndex(predictions[j]) >= Max(50, Len(argData) - argDays)
             /\ EntryIndex(predictions[j]) <= Len(argData) - 1
             /\ predictions[j].predicted
                   = predictNextDay(SubSeq(argData, 1, EntryIndex(predictions[j])),
                                    RandomAt(randomSource, EntryIndex(predictions[j])))
       /\ \A j, k \in 1..Len(predictions) :
             j < k => EntryIndex(predictions[j]) < EntryIndex(predictions[k])
       /\ \A changed \in {ChangedPredictions} :
             \A j \in 1..Len(predictions), k \in 1..Len(changed) :
                (EntryIndex(predictions[j]) <= MiddleIndex
                   /\ changed[k].date = predictions[j].date)
                => changed[k].predicted = predictions[j].predicted

C15_Witness ==
    /\ pc = "generatePredictions"
    /\ Len(predictions) = 3
    /\ argDays = 3
    /\ Len(argData) > 50 + argDays
    /\ EntryIndex(predictions[1]) = Len(argData) - argDays
    /\ \E changed \in {ChangedPredictions} :
          /\ Len(changed) = 3
          /\ changed[2].predicted = predictions[2].predicted
          /\ changed[3].predicted # predictions[3].predicted

\* the (at most 10) entries emitted immediately before entry j
EntriesBefore(j) == SubSeq(predictions, Max(1, j - 10), j - 1)

\* the mean of |actual - predicted| / actual over the entries, in RatioScale
MeanRelativeError(entries) ==
    Div(SumFrom([k \in 1..Len(entries) |->
                    Div(Abs(entries[k].actual.v - entries[k].predicted.v) * RatioScale,
                        entries[k].actual.v)],
                0, Len(entries)),
        Len(entries))

\* clamp(1 - 8 * avgError, 0.65, 0.95) in RatioScale; an infinite predicted
\* among the entries makes avgError infinite, and the clamp gives 0.65
ClampedConfidence(entries) ==
    IF \E k \in 1..Len(entries) : entries[k].predicted.k = "Infinity" THEN 6500
    ELSE LET avgError == IF Len(entries) = 0 THEN 200 ELSE MeanRelativeError(entries)
         IN  Max(6500, Min(9500, RatioScale - 8 * avgError))

\* C16: every emitted entry has confidence clamp(1 - 8 * avgError, 0.65,
\* 0.95), avgError being the mean relative error of the at most 10 entries
\* emitted immediately before it, and 0.02 when there is none; so every
\* confidence lies in [0.65, 0.95], the first is 0.84, and none depends on
\* the entry's own error.
C16_ConfidenceFromEarlierErrors ==
    pc = "generatePredictions" =>
       \A j \in 1..Len(predictions) :
          /\ predictions[j].confidence = ClampedConfidence(EntriesBefore(j))
          /\ predictions[j].confidence >= 6500
          /\ predictions[j].confidence <= 9500
          /\ j = 1 => predictions[j].confidence = 8400

C16_Witness ==
    /\ pc = "generatePredictions"
    /\ Len(predictions) >= 12
    /\ predictions[1].confidence = 8400
    /\ predictions[12].confidence > 6500
    /\ predictions[12].confidence < 9500
    /\ predictions[12].confidence # ClampedConfidence(SubSeq(predictions, 1, 11))

----------------------------------------------------------------------------
(* Properties of the scoring groups *)

\* the filtered prices the recommendation was scored on
PricesFor(r) == FilterPrices(InputData(r))

\* what each of the five groups added to the score of the recommendation
GroupScores(r) ==
    LET prices == PricesFor(r)
        last == Len(prices)
        macd == calculateMACD(prices)
    IN  [price |-> PricePredictionSignal(PredictedFor(r).v, prices[last]).score,
         trend |-> TrendSignal(calculateMovingAverage(prices, 20)[last],
                               calculateMovingAverage(prices, 50)[last],
                               prices[last]).score,
         rsi |-> RSISignal(RSIAt(prices, last - 1)).score,
         macd |-> MACDSignal(macd.macd[last], macd.signal[last]).score,
         momentum |-> MomentumSignal(prices).score]

PriceReasons ==
    {"Strong AI price prediction (+2.5%+)", "Positive AI price prediction",
     "Negative AI price prediction (-2.5%+)", "Weak AI price prediction"}

\* the score the claim gives the predicted-price-change group, the change
\* being (predicted - current) / current
ExpectedPriceScore(predicted, current) ==
    IF 1000 * (predicted - current) > 25 * current THEN 4
    ELSE IF 100 * (predicted - current) > current THEN 2
    ELSE IF 1000 * (predicted - current) < -25 * current THEN -4
    ELSE IF 100 * (predicted - current) < -current THEN -2
    ELSE 0

\* C17: in a scored recommendation the predicted-price-change group adds +4
\* when the change is > +2.5%, else +2 when > +1%, else -4 when < -2.5%,
\* else -2 when < -1%, else nothing, and appends one reason exactly when it
\* adds something (the reason then leads the reason text).
C17_PriceGroupOneBranch ==
    Done =>
       \A i \in 1..Len(recommendations) :
          LET r == recommendations[i]
          IN  IsScored(InputData(r)) =>
                 LET prices == PricesFor(r)
                     predicted == PredictedFor(r).v
                     g == GroupScores(r)
                     expected == ExpectedPriceScore(predicted, prices[Len(prices)])
                     signal == PricePredictionSignal(predicted, prices[Len(prices)])
                 IN  /\ signal.score = expected
                     /\ Len(signal.reasons) = IF expected = 0 THEN 0 ELSE 1
                     /\ Scoring(prices, predicted).score
                          = expected + g.trend + g.rsi + g.macd + g.momentum
                     /\ (r.reason[1] \in PriceReasons) = (expected # 0)
                     /\ Len(r.reason) >= 2 => r.reason[2] \notin PriceReasons

C17_Witness ==
    /\ Done
    /\ Len(recommendations) = 2
    /\ IsScored(InputData(recommendations[1]))
    /\ IsScored(InputData(recommendations[2]))
    /\ GroupScores(recommendations[1]).price = 4
    /\ GroupScores(recommendations[2]).price = -4
    /\ recommendations[1].reason[1] = "Strong AI price prediction (+2.5%+)"
    /\ recommendations[2].reason[1] = "Negative AI price prediction (-2.5%+)"

----------------------------------------------------------------------------
(* Properties of the RSI alignment *)

\* the RSI value of the latest bar: the last value calculateRSI computes,
\* which is the one for the change into the last close (undefined when the
\* prices hold fewer than two values)
LatestRSI(prices) == RSIAt(prices, Len(prices) - 2)

\* the score the claim gives the RSI group for an RSI value
ExpectedRSIScore(rsiValue) ==
    IF ~isFinite(rsiValue) THEN 0
    ELSE IF rsiValue.v < 30 * RsiScale THEN 2
    ELSE IF rsiValue.v > 70 * RsiScale THEN -2
    ELSE IF rsiValue.v >= 40 * RsiScale /\ rsiValue.v <= 60 * RsiScale THEN 1
    ELSE 0

\* C18: in a scored recommendation the RSI group uses the RSI value of the
\* latest bar: +2 when it is < 30, -2 when it is > 70, +1 when it lies in
\* [40, 60].
C18_RSIGroupUsesLatestRSI ==
    Done =>
       \A i \in 1..Len(recommendations) :
          LET r == recommendations[i]
          IN  IsScored(InputData(r)) =>
                 LET g == GroupScores(r)
                     expected == ExpectedRSIScore(LatestRSI(PricesFor(r)))
                 IN  /\ g.rsi = expected
                     /\ ScoreFor(r) = g.price + g.trend + expected + g.macd + g.momentum

\* C19: in predictNextDay the RSI feature is RSI[last] / 100, RSI[last]
\* being the RSI value aligned with the last close, and is the fallback 0.5
\* only when that value is not finite.
C19_RSIFeatureIsLatestRSI ==
    (pc = "predictNextDay" /\ Len(argData) >= 50 /\ ValidCloseCount(argData) > 0) =>
       LET prices == FilterPrices(argData)
           latest == LatestRSI(prices)
       IN  Features(prices, FilterVolumes(argData)).rsi
             = IF isFinite(latest) THEN Div(latest.v * RatioScale, 100 * RsiScale)
               ELSE RatioScale \div 2

----------------------------------------------------------------------------
(* Properties of the indicator functions *)

IndicatorDone ==
    pc \in {"calculateMovingAverage", "calculateEMA", "calculateRSI", "calculateMACD",
            "calculateBollingerBands"}

\* C20: every indicator function (moving average, EMA, RSI, MACD line,
\* signal and histogram, Bollinger Bands) returns arrays of exactly the
\* length of its input, for every input length (0 and lengths below the
\* window included), and no element is NaN or undefined for finite inputs.
C20_SameLengthNoNaN ==
    IndicatorDone =>
       \A a \in 1..Len(indicatorOutput) :
          /\ Len(indicatorOutput[a]) = Len(indicatorInput)
          /\ \A i \in 1..Len(indicatorOutput[a]) : indicatorOutput[a][i].k = "num"

\* C21: for every price array of length n >= 1 and period p, calculateRSI
\* returns an array of length n - 1, one entry per consecutive price
\* difference, and each of its first p - 1 entries is exactly 50.
C21_RSILengthAndWarmup ==
    (pc = "calculateRSI" /\ Len(indicatorInput) >= 1) =>
       LET rsi == indicatorOutput[1]
       IN  /\ Len(rsi) = Len(indicatorInput) - 1
           /\ \A i \in 1..Min(indicatorPeriod - 1, Len(rsi)) : rsi[i] = Num(50 * RsiScale)

C21_Witness ==
    /\ pc = "calculateRSI"
    /\ indicatorPeriod = 14
    /\ Len(indicatorInput) = 15
    /\ Len(indicatorOutput[1]) = 14
    /\ indicatorOutput[1][13] = Num(50 * RsiScale)
    /\ indicatorOutput[1][14] # Num(50 * RsiScale)

----------------------------------------------------------------------------
(* Properties of the volume feature *)

\* the volumeRatio the claim gives for the filtered volumes, in RatioScale
ExpectedVolumeRatio(volumes) ==
    LET n == Len(volumes)
        sum == SumFrom(volumes, n - 20, n)
    IN  IF n < 21 \/ sum <= 0 THEN RatioScale
        ELSE Div(volumes[n] * 20 * RatioScale, sum)

\* C22: in predictNextDay volumeRatio is latestVolume divided by the mean of
\* the trailing 20 volumes, and the fallback 1 only when fewer than 21
\* volume points exist or that mean is non-positive; a latest volume of 0
\* with a positive trailing mean yields 0.
C22_VolumeRatioFallback ==
    (pc = "predictNextDay" /\ Len(argData) >= 50 /\ ValidCloseCount(argData) > 0) =>
       Features(FilterPrices(argData), FilterVolumes(argData)).volumeRatio
         = ExpectedVolumeRatio(FilterVolumes(argData))

----------------------------------------------------------------------------
(* Properties of the reason text *)

\* the descriptions the groups appended for the recommendation, in the
\* order price prediction, trend, RSI, MACD, momentum
TriggeredFor(r) ==
    LET prices == PricesFor(r)
        last == Len(prices)
        macd == calculateMACD(prices)
    IN  PricePredictionSignal(PredictedFor(r).v, prices[last]).reasons
        \o TrendSignal(calculateMovingAverage(prices, 20)[last],
                       calculateMovingAverage(prices, 50)[last], prices[last]).reasons
        \o RSISignal(RSIAt(prices, last - 1)).reasons
        \o MACDSignal(macd.macd[last], macd.signal[last]).reasons
        \o MomentumSignal(prices).reasons

\* C23: the reason of a scored recommendation is the first two triggered
\* descriptions in the group order price prediction, trend, RSI, MACD,
\* momentum (one description when one group triggered), and is 'Mixed
\* technical signals' exactly when no group triggered.
C23_ReasonIsFirstTwoTriggered ==
    Done =>
       \A i \in 1..Len(recommendations) :
          LET r == recommendations[i]
          IN  IsScored(InputData(r)) =>
                 \A triggered \in {TriggeredFor(r)} :
                    /\ Len(triggered) >= 2 => r.reason = <<triggered[1], triggered[2]>>
                    /\ Len(triggered) = 1 => r.reason = triggered
                    /\ (r.reason = <<"Mixed technical signals">>) = (Len(triggered) = 0)

C23_Witness ==
    /\ Done
    /\ \E i, j \in 1..Len(recommendations) :
          /\ IsScored(InputData(recommendations[i]))
          /\ Len(TriggeredFor(recommendations[i])) >= 3
          /\ Len(recommendations[i].reason) = 2
          /\ IsScored(InputData(recommendations[j]))
          /\ Len(TriggeredFor(recommendations[j])) = 1
          /\ Len(recommendations[j].reason) = 1

\* the MACD line and the signal line at the last price of the recommendation
MACDLast(r) ==
    LET prices == PricesFor(r)
        macd == calculateMACD(prices)
    IN  [line |-> macd.macd[Len(prices)], signal |-> macd.signal[Len(prices)]]

\* C24: every scored recommendation carries at least one triggered reason:
\* the MACD group adds exactly +1 or -1 (-1 when the MACD line equals the
\* signal line) and always appends a description; 'Mixed technical signals'
\* is never the reason of a returned recommendation.
C24_MACDAlwaysFires ==
    Done =>
       \A i \in 1..Len(recommendations) :
          LET r == recommendations[i]
          IN  /\ r.reason # <<"Mixed technical signals">>
              /\ IsScored(InputData(r)) =>
                     \A last \in {MACDLast(r)}, g \in {GroupScores(r)},
                        triggered \in {TriggeredFor(r)} :
                        /\ g.macd = IF last.line > last.signal THEN 1 ELSE -1
                        /\ \E k \in 1..Len(triggered) :
                              triggered[k] = IF last.line > last.signal
                                             THEN "Positive MACD crossover"
                                             ELSE "Negative MACD signal"
                        /\ ScoreFor(r) = g.price + g.trend + g.rsi + g.macd + g.momentum

C24_Witness ==
    /\ Done
    /\ \E i \in 1..Len(recommendations) :
          /\ IsScored(InputData(recommendations[i]))
          /\ MACDLast(recommendations[i]).line = MACDLast(recommendations[i]).signal
          /\ GroupScores(recommendations[i]).macd = -1
          /\ recommendations[i].reason = <<"Negative MACD signal">>

----------------------------------------------------------------------------
(* Properties of the backtest entries *)

\* the 1-based position in the series of the bar a date belongs to (the
\* dates of a series are distinct)
BarOfDate(data, date) == CHOOSE i \in 1..Len(data) : data[i].date = date

\* C25: every entry generatePredictions emits pairs a date with the close
\* of that same bar, also for series with invalid closes at earlier
\* indices.
C25_ActualIsCloseOfDatedBar ==
    pc = "generatePredictions" =>
       \A j \in 1..Len(predictions) :
          predictions[j].actual = argData[BarOfDate(argData, predictions[j].date)].close

----------------------------------------------------------------------------
(* Properties of the clamp *)

\* C26: for a series of at least 50 valid bars the +/-8% clamp of
\* predictNextDay never changes the result: the value before the clamp is
\* the value returned, and it lies in
\* [lastClose * 0.96 * 0.996, lastClose * 1.04 * 1.004] (up to the two
\* hundredths the roundings of the fixed-point products can take off).
C26_ClampNeverBinds ==
    (pc = "predictNextDay" /\ Len(argData) >= 50 /\ AllClosesValid(argData)) =>
       LET lastClose == argData[Len(argData)].close.v
           final == FinalPrediction(FilterPrices(argData), FilterVolumes(argData),
                                    RandomAt(randomSource, 0))
       IN  /\ nextDay = Num(final)
           /\ final * 100000 >= lastClose * 95616 - 2 * 100000
           /\ final * 100000 <= lastClose * 104416
           /\ final * 100 > lastClose * 92
           /\ final * 100 < lastClose * 108

C26_Witness ==
    /\ pc = "predictNextDay"
    /\ Len(argData) >= 50
    /\ AllClosesValid(argData)
    /\ randomSource = "high"
    /\ nextDay.k = "num"
    /\ nextDay.v * 100 >= argData[Len(argData)].close.v * 104

----------------------------------------------------------------------------
(* Properties of the confidence *)

\* C27: every recommendation's confidence lies in [0, 0.95] and the final
\* cap at 0.95 never changes a value: the score is an integer in -12..12, a
\* BUY has confidence in [0.90, 0.92], a SELL in [0.82, 0.88], a scored HOLD
\* in [0.70, 0.78] with a score in -3..4, and a degenerate HOLD exactly 0.5.
C27_ConfidenceRanges ==
    Done =>
       /\ \A score \in -12..12 :
             LET category == Categorise(score)
             IN  /\ Min(category.confidence, 95) = category.confidence
                 /\ category.confidence >=
                       (CASE category.recommendation = "BUY" -> 90
                          [] category.recommendation = "SELL" -> 82
                          [] OTHER -> 70)
       /\ \A i \in 1..Len(recommendations) :
          LET r == recommendations[i]
          IN  /\ r.confidence >= 0 /\ r.confidence <= 95
              /\ IsScored(InputData(r)) =>
                     \A score \in {ScoreFor(r)} :
                        /\ score \in -12..12
                        /\ r.confidence = Categorise(score).confidence
                        /\ r.recommendation = "BUY"
                           => r.confidence >= 90 /\ r.confidence <= 92
                        /\ r.recommendation = "SELL"
                           => r.confidence >= 82 /\ r.confidence <= 88
                        /\ r.recommendation = "HOLD"
                           => /\ r.confidence >= 70 /\ r.confidence <= 78
                              /\ score \in -3..4
              /\ ~IsScored(InputData(r))
                 => r.recommendation = "HOLD" /\ r.confidence = 50

C27_Witness ==
    /\ Done
    /\ \E i, j \in 1..Len(recommendations) :
          /\ recommendations[i].recommendation = "BUY"
          /\ recommendations[i].confidence = 92
          /\ ScoreFor(recommendations[i]) >= 7
          /\ recommendations[j].recommendation = "SELL"
          /\ recommendations[j].confidence = 88

----------------------------------------------------------------------------
(* Properties of the App component *)

\* C28: in App, once no loadStockData call is in flight, the displayed
\* stockData, historicalData, predictions, nextDayPrediction and
\* currentStockRecommendation were all computed for the selected stock, and
\* loading is false only when no load is in flight.
C28_ShownIsSelectedWhenSettled ==
    /\ loads = <<>> => \A state \in ShownStates : shown[state] = selectedStock
    /\ ~loading => loads = <<>>

----------------------------------------------------------------------------
(* Properties of the StockSelector component *)

\* C29: in StockSelector at most one debounce timeout is pending at a time,
\* and once no timeout is pending and no search is awaited the searchResults
\* shown were computed for the current searchQuery: the popular list when
\* the query is empty, the suggestions or search results of that very query
\* otherwise.
C29_ResultsAreForQueryWhenSettled ==
    /\ Cardinality(timers) <= 1
    /\ (timers = {} /\ searches = <<>>) =>
          IF Trim(searchQuery) = <<>>
          THEN searchResults = PopularResults
          ELSE searchResults.kind # "popular" /\ searchResults.query = searchQuery

----------------------------------------------------------------------------
(* Properties of makeRobustApiCall *)

\* the attempts in the order the claim gives them: for each endpoint the
\* direct call, then the four proxies in the order of the list
AttemptOrder ==
    [k \in 1..10 |->
        [api |-> API_ENDPOINTS[((k - 1) \div 5) + 1],
         via |-> IF (k - 1) % 5 = 0 THEN "direct" ELSE CORS_PROXIES[(k - 1) % 5]]]

\* the attempt answered with status 200 and data that is not empty; through
\* a proxy a body that cannot be parsed counts as a failure
Succeeded(request) ==
    request.answered /\ ~(request.via # "direct" /\ request.unparsable)

\* C30: makeRobustApiCall makes its requests in the fixed order (per
\* endpoint the direct call, then the four proxies), never more than ten;
\* it returns exactly when the latest request succeeded, all before it having
\* failed, and throws only after ten failed requests; and every call that
\* was started ends in a return or a throw.
C30_FirstSuccessOrThrowAfterTen ==
    /\ [](/\ Len(requests) <= 10
          /\ \A k \in 1..Len(requests) :
                /\ requests[k].api = AttemptOrder[k].api
                /\ requests[k].via = AttemptOrder[k].via
                /\ Succeeded(requests[k]) <=> (k = Len(requests) /\ apiPc = "returned")
          /\ apiPc = "returned" => requests # <<>> /\ apiResult # "none"
          /\ apiPc = "thrown" => Len(requests) = 10)
    /\ (apiPc = "running" ~> apiPc \in {"returned", "thrown"})

\* a call returned the parsed body of the last proxy of the second endpoint
\* after nine failures, one of them an unparsable body
C30_Witness ==
    /\ apiPc = "returned"
    /\ Len(requests) = 10
    /\ apiResult = "parsed"
    /\ \E k \in 1..9 : requests[k].answered /\ requests[k].unparsable

====
